---- MODULE Spec2Model ----
(***************************************************************************)
(* A model of the ASCII ray tracer of src/main.cpp: the vector arithmetic, *)
(* Sphere::intersect, isCheckerboard, getShade, render, displayBuffer and  *)
(* the key loop of main.                                                   *)
(*                                                                         *)
(* float values are modelled in fixed point: the integer a stands for the  *)
(* real a / Scale, and every product, quotient and square root is rounded  *)
(* to the nearest representable value, as IEEE arithmetic rounds.          *)
(* Characters are one-character strings; NUL is the value-initialised char *)
(* of std::vector<char>.                                                   *)
(***************************************************************************)
EXTENDS Integers, Sequences, FiniteSets

(***************************************************************************)
(* Fixed-point arithmetic standing for float                               *)
(***************************************************************************)

\* resolution of the fixed-point values standing for float (1 = Scale)
Scale == 100

\* a float literal with an integral value, e.g. Lit(2) for 2.0f
Lit(n) == n * Scale

Abs(a) == IF a < 0 THEN -a ELSE a

\* n / d rounded to the nearest integer, d # 0
RoundDiv(n, d) ==
    LET nn == IF d < 0 THEN -n ELSE n
        dd == IF d < 0 THEN -d ELSE d
    IN  (2 * nn + dd) \div (2 * dd)

\* float * float
Mul(a, b) == RoundDiv(a * b, Scale)

\* what a float division by zero yields: the value standing for +-infinity
Inf == 1000000 * Scale

\* float / float; x / 0 is +-infinity by the sign of x (0 / 0, a NaN, compares
\* false with everything and is given the value 0, which is not > 0)
Div(a, b) ==
    IF b = 0
    THEN IF a > 0 THEN Inf ELSE IF a < 0 THEN -Inf ELSE 0
    ELSE RoundDiv(a * Scale, b)

RECURSIVE IsqrtSearch(_, _, _)
\* the largest r in lo..hi with r * r <= n, given lo * lo <= n
IsqrtSearch(n, lo, hi) ==
    IF lo >= hi
    THEN lo
    ELSE LET mid == (lo + hi + 1) \div 2
         IN  IF mid * mid <= n
             THEN IsqrtSearch(n, mid, hi)
             ELSE IsqrtSearch(n, lo, mid - 1)

\* the integer nearest to the square root of n >= 0
Isqrt(n) ==
    LET r == IsqrtSearch(n, 0, 46340)
    IN  IF n - r * r > r THEN r + 1 ELSE r

\* std::sqrt of a float
Sqrt(a) == Isqrt(a * Scale)

\* a slip: static_cast<int> without std::floor, which truncates toward zero
TruncTowardZero(a) == IF a >= 0 THEN a \div Scale ELSE -((-a) \div Scale)

\* std::floor followed by static_cast<int>: the integer floor of the float
Floor(a) == a \div Scale

\* static_cast<int> of a non-negative float: truncation
Trunc(a) == a \div Scale

\* the % of C++ on int: the remainder has the sign of the dividend
CRem(a, n) == IF a >= 0 THEN a % n ELSE -((-a) % n)

Min(a, b) == IF a < b THEN a ELSE b

(***************************************************************************)
(* Vec3, Ray, Sphere                                                       *)
(***************************************************************************)

Vec3(x, y, z) == [x |-> x, y |-> y, z |-> z]

VAdd(a, b) == Vec3(a.x + b.x, a.y + b.y, a.z + b.z)

VSub(a, b) == Vec3(a.x - b.x, a.y - b.y, a.z - b.z)

VMul(a, s) == Vec3(Mul(a.x, s), Mul(a.y, s), Mul(a.z, s))

dot(a, b) == Mul(a.x, b.x) + Mul(a.y, b.y) + Mul(a.z, b.z)

normalize(a) ==
    LET mag == Sqrt(Mul(a.x, a.x) + Mul(a.y, a.y) + Mul(a.z, a.z))
    IN  Vec3(Div(a.x, mag), Div(a.y, mag), Div(a.z, mag))

Ray(origin, direction) == [origin |-> origin, direction |-> normalize(direction)]

Sphere(center, radius) == [center |-> center, radius |-> radius]

\* the result of a call that returns false: the out parameters are not read
Miss == [hit |-> FALSE, t |-> 0, hitPoint |-> Vec3(0, 0, 0), normal |-> Vec3(0, 0, 0)]

\* a slip: the other root of the quadratic
FarRoot(a, b, discriminant) == Div(-b + Sqrt(discriminant), Mul(Lit(2), a))

\* the root intersect takes: (-b - std::sqrt(discriminant)) / (2.0f * a)
NearRoot(a, b, discriminant) == Div(-b - Sqrt(discriminant), Mul(Lit(2), a))

\* Sphere::intersect: the near root of the quadratic, a hit only when it is > 0
intersect(sphere, ray) ==
    LET oc == VSub(ray.origin, sphere.center)
        a == dot(ray.direction, ray.direction)
        b == Mul(Lit(2), dot(oc, ray.direction))
        c == dot(oc, oc) - Mul(sphere.radius, sphere.radius)
        discriminant == Mul(b, b) - Mul(Mul(Lit(4), a), c)
        t == NearRoot(a, b, discriminant)
        hitPoint == VAdd(ray.origin, VMul(ray.direction, t))
        normal == normalize(VSub(hitPoint, sphere.center))
    IN  IF discriminant < 0 THEN Miss
        ELSE IF t <= 0 THEN Miss
        ELSE [hit |-> TRUE, t |-> t, hitPoint |-> hitPoint, normal |-> normal]

(***************************************************************************)
(* isCheckerboard, getShade                                                *)
(***************************************************************************)

isCheckerboard(point) ==
    LET checkerX == Floor(point.x)
        checkerZ == Floor(point.z)
    IN  CRem(checkerX + checkerZ, 2) = 0

\* the palette " .:-=+*"; shades[i + 1] is the C++ shades[i]
shades == <<" ", ".", ":", "-", "=", "+", "*">>

\* a slip: the product rounded to the nearest index
RoundedShadeIndex(t) ==
    Min(RoundDiv(t * (Len(shades) - 1), Scale), Len(shades) - 1)

\* index of getShade, for t already clamped:
\* std::min(static_cast<int>(t * (shades.size() - 1)), static_cast<int>(shades.size() - 1))
ShadeIndex(t) == Min(Trunc(t * (Len(shades) - 1)), Len(shades) - 1)

getShade(t, reflective) ==
    LET t1 == IF t < 0 THEN 0 ELSE t
        t2 == IF t1 > Lit(1) THEN Lit(1) ELSE t1
        index == ShadeIndex(t2)
    IN  IF reflective
        THEN shades[index + 1]
        ELSE IF isCheckerboard(Vec3(t2, 0, 0)) THEN "*" ELSE " "

(***************************************************************************)
(* The state of main and of the terminal                                   *)
(***************************************************************************)

VARIABLES
    width,       \* main's width: the number of columns of the grid
    height,      \* main's height: the number of rows of the grid
    camera,      \* main's camera position
    buffer,      \* the frame buffer, indexed y * width + x from 0
    changed,     \* the change mask, indexed as buffer
    screen,      \* the terminal's character cells, indexed as buffer
    emitted,     \* what the latest displayBuffer call wrote: <<row, col, char>>
    pc,          \* where main is: "getch", "render", "display"
    lastCamera,  \* the cameras of the latest two render calls, newest first
    call,        \* the arguments of a function applied on its own
    ret          \* its result

vars == <<width, height, camera, buffer, changed, screen, emitted, pc, lastCamera, call, ret>>

\* the value-initialised char of std::vector<char>
NUL == "NUL"

\* the grid of main in the model (the program's is 200 x 250)
TerminalWidth == 8
TerminalHeight == 6

\* the grid of the program
ProgramWidth == 200
ProgramHeight == 250

\* how many steps the keys may move the camera away from where it starts:
\* forward (w), to the left (a), up (y); s, d and x move it back
MaxForward == 40
MaxLeft == 1
MaxUp == 1

\* the camera of main at start
Camera0 == Vec3(0, Lit(1), -Lit(6))

\* the 0.2 every recognised key moves the camera by
Step == Scale \div 5

\* the text printed before the loop starts, at the home position
Prompt == <<"P", "r", "e", "s", "s", " ", "a", "n", "y", " ", "k", "e", "y",
            " ", "t", "o", " ", "s", "t", "a", "r", "t">>

Cells(w, h) == 0 .. (w * h - 1)

(***************************************************************************)
(* render                                                                  *)
(***************************************************************************)

\* targetAspectRatio = 16.0f / 9.0f, kept as a fraction: for grids of this size
\* the float quotient width / targetAspectRatio and the float product
\* height * targetAspectRatio truncate to the same integers as the fractions
TargetNum == 16
TargetDen == 9

\* a slip: the height is not clamped to the grid
UnclampedHeight(w, h) == (w * TargetDen) \div TargetNum

\* adjustedHeight and adjustedWidth of render
adjustedHeight(w, h) ==
    LET ah == (w * TargetDen) \div TargetNum
    IN  IF ah > h THEN h ELSE ah

adjustedWidth(w, h) ==
    LET ah == (w * TargetDen) \div TargetNum
    IN  IF ah > h THEN (h * TargetNum) \div TargetDen ELSE w

\* a slip: the aspect ratio of the sub-rectangle
SubRectAspectRatio(w, h) == Div(Lit(adjustedWidth(w, h)), Lit(adjustedHeight(w, h)))

\* aspectRatio of render: static_cast<float>(width) / height
aspectRatio(w, h) == Div(Lit(w), Lit(h))

\* the view-plane coordinates of cell (x, y)
ViewU(x, w, h) ==
    Mul(Div(Lit(x) - Div(Lit(adjustedWidth(w, h)), Lit(2)), Lit(adjustedWidth(w, h))),
        aspectRatio(w, h))

ViewV(y, w, h) ==
    Div(Div(Lit(adjustedHeight(w, h)), Lit(2)) - Lit(y), Lit(adjustedHeight(w, h)))

\* the sphere of render
TheSphere == Sphere(Vec3(0, Lit(2), Lit(3)), Lit(1))

\* a slip: the sphere shaded with intensity 1 instead of the hit distance
FullSphereShade(t) == getShade(Lit(1), TRUE)

\* getShade(t, true) for a sphere hit at distance t
SphereShade(t) == getShade(t, TRUE)

\* The body of render's loop for cell (x, y) up to the comparison with the
\* buffer: newChar, and how it came about (kind, t, floorDist, floorPoint).
\*   "mirror": sphere hit, the reflection ray crosses the floor (floorDist > 0)
\*   "sphere": sphere hit, floorDist not > 0
\*   "floor":  sphere miss, ray.direction.y < 0
\*   "sky":    sphere miss, ray.direction.y >= 0
Trace(cam, x, y, w, h) ==
    LET ray == Ray(cam, Vec3(ViewU(x, w, h), ViewV(y, w, h), Lit(1)))
        i == intersect(TheSphere, ray)
        reflectionDir ==
            VSub(ray.direction, VMul(VMul(i.normal, Lit(2)), dot(ray.direction, i.normal)))
        reflectionRay == Ray(i.hitPoint, reflectionDir)
        hitFloorDist == Div(-i.hitPoint.y, reflectionRay.direction.y)
        hitFloorPoint == VAdd(i.hitPoint, VMul(reflectionRay.direction, hitFloorDist))
        missFloorDist == Div(-cam.y, ray.direction.y)
        missFloorPoint == VAdd(cam, VMul(ray.direction, missFloorDist))
    IN  IF i.hit
        THEN IF hitFloorDist > 0
             THEN [kind |-> "mirror", t |-> i.t, floorDist |-> hitFloorDist,
                   floorPoint |-> hitFloorPoint,
                   newChar |-> getShade(Lit(1), isCheckerboard(hitFloorPoint))]
             ELSE [kind |-> "sphere", t |-> i.t, floorDist |-> hitFloorDist,
                   floorPoint |-> Vec3(0, 0, 0),
                   newChar |-> SphereShade(i.t)]
        ELSE IF ray.direction.y < 0
             THEN [kind |-> "floor", t |-> 0, floorDist |-> missFloorDist,
                   floorPoint |-> missFloorPoint,
                   newChar |-> getShade(Lit(1), isCheckerboard(missFloorPoint))]
             ELSE [kind |-> "sky", t |-> 0, floorDist |-> 0,
                   floorPoint |-> Vec3(0, 0, 0), newChar |-> " "]

\* the cells render's loops visit
InSubRect(i, w, h) ==
    /\ i % w < adjustedWidth(w, h)
    /\ i \div w < adjustedHeight(w, h)

\* newChar for the cell of index i
NewChar(cam, i, w, h) == Trace(cam, i % w, i \div w, w, h).newChar

(***************************************************************************)
(* main: the state after construction, the keys, render, displayBuffer     *)
(***************************************************************************)

\* the terminal after "\033[2J", "\033[H" and the prompt: blank, with the
\* prompt in its first row
Screen0(w, h) ==
    [i \in Cells(w, h) |-> IF i < Len(Prompt) /\ i < w THEN Prompt[i + 1] ELSE " "]

\* main up to the loop, for a grid of w x h
MainInit(w, h) ==
    /\ width = w
    /\ height = h
    /\ camera = Camera0
    /\ buffer = [i \in Cells(w, h) |-> NUL]
    /\ changed = [i \in Cells(w, h) |-> FALSE]
    /\ screen = Screen0(w, h)
    /\ emitted = <<>>
    /\ pc = "getch"
    /\ lastCamera = <<>>
    /\ call = <<>>
    /\ ret = <<>>

Init == MainInit(TerminalWidth, TerminalHeight)

\* _getch() has returned a key: the switch moves the camera to cam
Key(cam) ==
    /\ pc = "getch"
    /\ camera' = cam
    /\ pc' = "render"
    /\ UNCHANGED <<width, height, buffer, changed, screen, emitted, lastCamera, call, ret>>

KeyW ==
    /\ camera.z < Camera0.z + MaxForward * Step
    /\ Key([camera EXCEPT !.z = @ + Step])

KeyS ==
    /\ camera.z > Camera0.z
    /\ Key([camera EXCEPT !.z = @ - Step])

KeyA ==
    /\ camera.x > Camera0.x - MaxLeft * Step
    /\ Key([camera EXCEPT !.x = @ - Step])

KeyD ==
    /\ camera.x < Camera0.x
    /\ Key([camera EXCEPT !.x = @ + Step])

KeyY ==
    /\ camera.y < Camera0.y + MaxUp * Step
    /\ Key([camera EXCEPT !.y = @ + Step])

KeyX ==
    /\ camera.y > Camera0.y
    /\ Key([camera EXCEPT !.y = @ - Step])

\* keys the switch has no case for
OtherKeys == {"q", " "}

KeyOther == \E ch \in OtherKeys : Key(camera)

\* a slip: the mask is not cleared
StaleMask(mask) == mask

\* std::fill(changed.begin(), changed.end(), false)
ClearedMask(mask) == [i \in DOMAIN mask |-> FALSE]

\* a slip: every visited cell is written and marked
AlwaysDiffers(newChar, old) == TRUE

\* newChar != buffer[y * width + x]
Differs(newChar, old) == newChar # old

\* newChar of every cell render's loops visit
Fresh(cam, w, h) ==
    [i \in {j \in Cells(w, h) : InSubRect(j, w, h)} |-> NewChar(cam, i, w, h)]

\* render(width, height, camera, buffer, changed): the mask is cleared, then
\* every cell of the sub-rectangle whose newChar differs from the buffer is
\* overwritten and marked. Each cell is visited once and reads only itself.
Render ==
    /\ pc = "render"
    /\ \E cleared \in {ClearedMask(changed)}, fresh \in {Fresh(camera, width, height)} :
          /\ buffer' = [i \in Cells(width, height) |->
                          IF i \in DOMAIN fresh /\ Differs(fresh[i], buffer[i])
                          THEN fresh[i]
                          ELSE buffer[i]]
          /\ changed' = [i \in Cells(width, height) |->
                           IF i \in DOMAIN fresh /\ Differs(fresh[i], buffer[i])
                           THEN TRUE
                           ELSE cleared[i]]
    /\ lastCamera' = IF lastCamera = <<>> THEN <<camera>> ELSE <<camera, lastCamera[1]>>
    /\ pc' = "display"
    /\ UNCHANGED <<width, height, camera, screen, emitted, call, ret>>

\* what displayBuffer prints for a cell holding the character ch
Drawn(ch) == IF ch = "*" THEN "*" ELSE " "

\* the indices of the cells, in the order displayBuffer's loops visit them
CellSeq(w, h) == [k \in 1 .. (w * h) |-> k - 1]

IsChanged(i) == changed[i]

\* one printf of displayBuffer: "\033[row;colH" followed by a character
Update(i, w) == [row |-> (i \div w) + 1, col |-> (i % w) + 1, ch |-> Drawn(buffer[i])]

\* displayBuffer(width, height, buffer, changed)
Display ==
    /\ pc = "display"
    /\ emitted' = LET todo == SelectSeq(CellSeq(width, height), IsChanged)
                  IN  [k \in 1 .. Len(todo) |-> Update(todo[k], width)]
    /\ screen' = [i \in Cells(width, height) |->
                    IF changed[i] THEN Drawn(buffer[i]) ELSE screen[i]]
    /\ pc' = "getch"
    /\ UNCHANGED <<width, height, camera, buffer, changed, lastCamera, call, ret>>

Next ==
    \/ KeyW
    \/ KeyS
    \/ KeyA
    \/ KeyD
    \/ KeyY
    \/ KeyX
    \/ KeyOther
    \/ Render
    \/ Display

Spec == Init /\ [][Next]_vars

(***************************************************************************)
(* Properties of render and displayBuffer in the loop of main              *)
(***************************************************************************)

SubRect == {i \in Cells(width, height) : InSubRect(i, width, height)}

\* render has returned and displayBuffer has not yet run
AfterRender == pc = "display"

\* a render + display cycle of the loop has completed
AfterCycle == pc = "getch" /\ lastCamera # <<>>

\* the trace of the latest render call for the cell of index i
CellTrace(i) == Trace(camera, i % width, i \div width, width, height)

\* C1: after every render call, a cell's change-mask entry is true exactly
\* when the call changed the cell's frame-buffer character; no flag of an
\* earlier frame survives.
MaskMarksExactlyTheChangedCells ==
    [][Render => \A i \in Cells(width, height) : changed'[i] <=> (buffer'[i] # buffer[i])]_vars

\* C1 witness: a later frame has marked some cells of the sub-rectangle and
\* left others unmarked
SomeCellsChangedSomeNot ==
    /\ AfterRender
    /\ Len(lastCamera) = 2
    /\ \E i \in SubRect : changed[i]
    /\ \E i \in SubRect : ~changed[i]

\* C2: a render call with the camera of the render call before it leaves the
\* mask all false and the frame buffer as it was.
RenderTwiceIsIdempotent ==
    [][(Render /\ lastCamera # <<>> /\ lastCamera[1] = camera)
          => /\ \A i \in Cells(width, height) : ~changed'[i]
             /\ buffer' = buffer]_vars

\* C2 witness: render has run twice in a row with the same camera, over a
\* buffer that holds a drawn picture
RenderedTwiceWithSameCamera ==
    /\ AfterRender
    /\ Len(lastCamera) = 2
    /\ lastCamera[1] = lastCamera[2]
    /\ \E i \in SubRect : buffer[i] = "*"
    /\ \A i \in Cells(width, height) : ~changed[i]

\* the number of updates displayBuffer emitted for the cell of index i
UpdatesFor(i) ==
    Cardinality({k \in 1 .. Len(emitted) :
                    /\ emitted[k].row = (i \div width) + 1
                    /\ emitted[k].col = (i % width) + 1})

\* C3: displayBuffer emits, for every cell whose mask entry is true, exactly
\* one update at (y + 1, x + 1) drawing the character the frame buffer holds
\* for the cell, and nothing for a cell whose mask entry is false.
DisplayDrawsTheBufferCharacter ==
    AfterCycle =>
        \A i \in Cells(width, height) :
            IF changed[i]
            THEN /\ UpdatesFor(i) = 1
                 /\ \A k \in 1 .. Len(emitted) :
                        (emitted[k].row = (i \div width) + 1 /\ emitted[k].col = (i % width) + 1)
                            => emitted[k].ch = buffer[i]
            ELSE UpdatesFor(i) = 0

\* C5: a cell whose camera ray hits the sphere and whose reflection ray has no
\* positive floor crossing gets the brightest palette character.
SphereCellsAreBrightest ==
    AfterRender =>
        \A i \in SubRect :
            LET tr == CellTrace(i)
            IN  tr.kind = "sphere" => buffer[i] = "*"

\* C5 amended: such a cell gets the palette character of its hit distance t:
\* '*' when t >= 1, and the k-th character (from 0) when k <= 6 t < k + 1.
SphereCellsAreShadedByHitDistance ==
    AfterRender =>
        \A i \in SubRect :
            LET tr == CellTrace(i)
            IN  tr.kind = "sphere" =>
                    /\ tr.t > 0
                    /\ tr.t >= Scale => buffer[i] = "*"
                    /\ \A k \in 0 .. 5 :
                           (k * Scale <= 6 * tr.t /\ 6 * tr.t < (k + 1) * Scale)
                               => buffer[i] = <<" ", ".", ":", "-", "=", "+">>[k + 1]

\* C5 witness: render has shaded a sphere cell hit at a distance below 1
SphereCellHitBelowOne ==
    /\ AfterRender
    /\ \E i \in SubRect :
          LET tr == CellTrace(i)
          IN  tr.kind = "sphere" /\ tr.t < Scale /\ buffer[i] \in {".", ":", "-", "=", "+"}

\* C7: after every completed render + display cycle, every cell of the
\* sub-rectangle shows on the terminal the character the frame buffer holds.
ScreenShowsTheBuffer ==
    AfterCycle => \A i \in SubRect : screen[i] = buffer[i]

\* C8: a cell coloured from a floor crossing point p is '*' when
\* floor(p.x) + floor(p.z) is even and ' ' when it is odd.
FloorCellsFollowTheCheckerboard ==
    AfterRender =>
        \A i \in SubRect :
            LET tr == CellTrace(i)
            IN  tr.kind \in {"mirror", "floor"} =>
                    buffer[i] =
                        IF ((tr.floorPoint.x \div Scale) + (tr.floorPoint.z \div Scale)) % 2 = 0
                        THEN "*"
                        ELSE " "

\* C8 witness: render has coloured cells from floor crossing points of both
\* parities, seen in the sphere and directly, one of them with a negative odd
\* sum of floors
FloorCellsOfBothParities ==
    /\ AfterRender
    /\ \E i \in SubRect : CellTrace(i).kind = "mirror" /\ buffer[i] = "*"
    /\ \E i \in SubRect : CellTrace(i).kind = "mirror" /\ buffer[i] = " "
    /\ \E i \in SubRect :
          LET tr == CellTrace(i)
          IN  /\ tr.kind = "floor"
              /\ tr.floorPoint.x < 0
              /\ (tr.floorPoint.x \div Scale) + (tr.floorPoint.z \div Scale) < 0
              /\ (-((tr.floorPoint.x \div Scale) + (tr.floorPoint.z \div Scale))) % 2 = 1
              /\ buffer[i] = " "
    /\ \E i \in SubRect : CellTrace(i).kind = "floor" /\ buffer[i] = "*"

(***************************************************************************)
(* render on grids of other sizes                                          *)
(***************************************************************************)

\* the largest grid of GridSpec
MaxWidth == 12
MaxHeight == 8

GridInit == \E w \in 1 .. MaxWidth, h \in 1 .. MaxHeight : MainInit(w, h)

GridNext ==
    \/ KeyY
    \/ KeyX
    \/ KeyOther
    \/ Render
    \/ Display

\* main with a grid of any size up to MaxWidth x MaxHeight
GridSpec == GridInit /\ [][GridNext]_vars

\* C9: the sub-rectangle is no wider and no higher than the grid, every index
\* render touches is inside the buffer, and a cell outside the sub-rectangle
\* keeps its character and has a false mask entry after the call.
SubRectFitsAndOutsideIsUntouched ==
    [][Render =>
          /\ adjustedWidth(width, height) <= width
          /\ adjustedHeight(width, height) <= height
          /\ \A x \in 0 .. (adjustedWidth(width, height) - 1),
                y \in 0 .. (adjustedHeight(width, height) - 1) :
                 y * width + x \in DOMAIN buffer
          /\ \A i \in Cells(width, height) :
                 (i % width >= adjustedWidth(width, height)
                    \/ i \div width >= adjustedHeight(width, height))
                     => (buffer'[i] = buffer[i] /\ ~changed'[i])]_vars

\* C9 witness: a later frame on a grid wider than its sub-rectangle has
\* marked a cell inside and left the border as it was constructed
BorderKeptWhileInsideChanged ==
    /\ AfterRender
    /\ Len(lastCamera) = 2
    /\ adjustedWidth(width, height) < width
    /\ \E i \in SubRect : changed[i]
    /\ \A i \in Cells(width, height) \ SubRect : buffer[i] = NUL /\ ~changed[i]

(***************************************************************************)
(* Functions applied on their own: call holds the arguments, ret the       *)
(* result once pc = "done"                                                 *)
(***************************************************************************)

\* main does not run: its variables keep the values given here
Call(args) ==
    /\ call = args
    /\ ret = <<>>
    /\ pc = "call"
    /\ width = TerminalWidth
    /\ height = TerminalHeight
    /\ camera = Camera0
    /\ buffer = <<>>
    /\ changed = <<>>
    /\ screen = <<>>
    /\ emitted = <<>>
    /\ lastCamera = <<>>

Return(value) ==
    /\ pc = "call"
    /\ ret' = value
    /\ pc' = "done"
    /\ UNCHANGED <<width, height, camera, buffer, changed, screen, emitted, lastCamera, call>>

Returned == pc = "done"

(***************************************************************************)
(* getShade                                                                *)
(***************************************************************************)

\* the intensities tried: from -ShadeBelow to ShadeAbove, in steps of 1 / Scale
ShadeBelow == 5
ShadeAbove == 50

ShadeInit ==
    \E t \in (-Lit(ShadeBelow)) .. Lit(ShadeAbove), reflective \in BOOLEAN :
        Call([t |-> t, reflective |-> reflective])

ApplyShade == Return(getShade(call.t, call.reflective))

ShadeSpec == ShadeInit /\ [][ApplyShade]_vars

\* the intensity clamped to [0, 1]
Clamped(t) == IF t < 0 THEN 0 ELSE IF t > Scale THEN Scale ELSE t

\* C6: getShade(t, true) is palette[round(t' * 6)] for t' = t clamped to
\* [0, 1]; every t < 0 gives the character of t = 0, every t > 1 that of t = 1.
ShadeIsTheRoundedIndex ==
    (Returned /\ call.reflective) =>
        /\ ret = <<" ", ".", ":", "-", "=", "+", "*">>
                    [((2 * 6 * Clamped(call.t) + Scale) \div (2 * Scale)) + 1]
        /\ call.t < 0 => ret = " "
        /\ call.t > Scale => ret = "*"

\* C6 amended: getShade(t, true) is palette[k] for the integer k with
\* k <= t' * 6 < k + 1, the product truncated and not rounded; t < 0 gives
\* the character of t = 0 and t > 1 that of t = 1.
ShadeIsTheTruncatedIndex ==
    (Returned /\ call.reflective) =>
        /\ \E k \in 0 .. 6 :
              /\ k * Scale <= 6 * Clamped(call.t)
              /\ 6 * Clamped(call.t) < (k + 1) * Scale
              /\ ret = <<" ", ".", ":", "-", "=", "+", "*">>[k + 1]
        /\ call.t <= 0 => ret = " "
        /\ call.t >= Scale => ret = "*"

\* C6 witness: getShade(0.1, true) has returned palette[0], where rounding
\* 0.6 would give palette[1]
ShadeOfOneTenth ==
    /\ Returned
    /\ call.reflective
    /\ 10 * call.t = Scale
    /\ ret = " "

(***************************************************************************)
(* Sphere::intersect                                                       *)
(***************************************************************************)

\* the components of origin - center tried: 0, +-0.6, +-0.8, +-1 and +-5
Offsets ==
    {0, (3 * Scale) \div 5, -((3 * Scale) \div 5), (4 * Scale) \div 5, -((4 * Scale) \div 5),
     Lit(1), -Lit(1), Lit(5), -Lit(5)}

\* the spheres tried: that of render, and center (0, 0, 5) with radius 1
Spheres == {TheSphere, Sphere(Vec3(0, 0, Lit(5)), Lit(1))}

\* the directions tried, before Ray normalises them
Directions == {Vec3(0, 0, Lit(1)), Vec3(0, 0, -Lit(1)), Vec3(Lit(1), 0, 0), Vec3(-Lit(1), 0, 0)}

IntersectInit ==
    \E sphere \in Spheres, ox \in Offsets, oz \in Offsets, direction \in Directions :
        Call([sphere |-> sphere,
              origin |-> VAdd(sphere.center, Vec3(ox, 0, oz)),
              direction |-> direction])

ApplyIntersect == Return(intersect(call.sphere, Ray(call.origin, call.direction)))

IntersectSpec == IntersectInit /\ [][ApplyIntersect]_vars

\* the distances along the ray that are looked at: up to 7, past every sphere
RayReach == 7 * Scale

\* the point of the ray of the call at distance s
PointAt(s) == VAdd(call.origin, VMul(Ray(call.origin, call.direction).direction, s))

SquaredDistance(p, q) ==
    (p.x - q.x) * (p.x - q.x) + (p.y - q.y) * (p.y - q.y) + (p.z - q.z) * (p.z - q.z)

\* p lies on the sphere of the call
OnSphere(p) == SquaredDistance(p, call.sphere.center) = call.sphere.radius * call.sphere.radius

\* the positive distances at which the ray of the call is on the sphere
Crossings == {s \in 1 .. RayReach : OnSphere(PointAt(s))}

\* the ray origin of the call lies strictly outside the sphere
OriginOutside ==
    SquaredDistance(call.origin, call.sphere.center) > call.sphere.radius * call.sphere.radius

\* C4: intersect reports a hit exactly when the ray is on the sphere at some
\* strictly positive distance, t is the smallest such distance and the hit
\* point is origin + direction * t, wherever the origin lies.
IntersectFindsNearestPositiveCrossing ==
    Returned =>
        /\ ret.hit <=> Crossings # {}
        /\ ret.hit =>
              /\ ret.t \in Crossings
              /\ \A s \in Crossings : ret.t <= s
              /\ ret.hitPoint = PointAt(ret.t)

\* C4 amended: for an origin strictly outside the sphere it is so; for an
\* origin on or inside the sphere intersect reports a miss, also when the ray
\* leaves the sphere at a positive distance. Origin (0,0,0), direction
\* (0,0,1), centre (0,0,5), radius 1 give a hit at t = 4.
IntersectFindsNearestCrossingFromOutside ==
    Returned =>
        /\ ret.hit <=> (OriginOutside /\ Crossings # {})
        /\ ret.hit =>
              /\ ret.t \in Crossings
              /\ \A s \in Crossings : ret.t <= s
              /\ ret.hitPoint = PointAt(ret.t)
        /\ (/\ call.sphere = Sphere(Vec3(0, 0, Lit(5)), Lit(1))
            /\ call.origin = Vec3(0, 0, 0)
            /\ call.direction = Vec3(0, 0, Lit(1)))
              => (ret.hit /\ ret.t = Lit(4))

\* C4 witness: intersect has reported a miss for a ray that starts inside the
\* sphere and leaves it at a positive distance
MissFromInside ==
    /\ Returned
    /\ ~OriginOutside
    /\ Crossings # {}
    /\ ~ret.hit

(***************************************************************************)
(* The view-plane coordinates of render                                    *)
(***************************************************************************)

\* the grids tried: the program's, the model's, 16:9 and a wider one
ViewGrids ==
    {<<ProgramWidth, ProgramHeight>>, <<TerminalWidth, TerminalHeight>>,
     <<TargetNum, TargetDen>>, <<2 * TargetNum, TargetDen>>}

ViewInit ==
    \E g \in ViewGrids :
        \E x \in 0 .. (adjustedWidth(g[1], g[2]) - 1), y \in 0 .. (adjustedHeight(g[1], g[2]) - 1) :
            Call([w |-> g[1], h |-> g[2], x |-> x, y |-> y])

ApplyView == Return([u |-> ViewU(call.x, call.w, call.h), v |-> ViewV(call.y, call.w, call.h)])

ViewSpec == ViewInit /\ [][ApplyView]_vars

\* v is (adjustedHeight / 2 - y) / adjustedHeight, to the resolution of the model
ViewVIsCentred ==
    Abs(2 * adjustedHeight(call.w, call.h) * ret.v
          - Scale * (adjustedHeight(call.w, call.h) - 2 * call.y))
        <= 2 * adjustedHeight(call.w, call.h)

\* C10: u is ((x - adjustedWidth / 2) / adjustedWidth) times the aspect ratio
\* adjustedWidth / adjustedHeight of the sub-rectangle, and v is
\* (adjustedHeight / 2 - y) / adjustedHeight.
ViewUScaledBySubRectAspect ==
    Returned =>
        /\ ViewVIsCentred
        /\ Abs(2 * adjustedHeight(call.w, call.h) * ret.u
                 - Scale * (2 * call.x - adjustedWidth(call.w, call.h)))
             <= 3 * 2 * adjustedHeight(call.w, call.h)

\* C10 amended: u is ((x - adjustedWidth / 2) / adjustedWidth) times the ratio
\* width / height of the full grid; v is as claimed.
ViewUScaledByGridAspect ==
    Returned =>
        /\ ViewVIsCentred
        /\ Abs(2 * adjustedWidth(call.w, call.h) * call.h * ret.u
                 - Scale * (2 * call.x - adjustedWidth(call.w, call.h)) * call.w)
             <= 3 * 2 * adjustedWidth(call.w, call.h) * call.h

\* C10 witness: on the 200 x 250 grid the leftmost cell of the top row has
\* u = -0.5 * 0.8 and v = 0.5
ViewOfTopLeftCell ==
    /\ Returned
    /\ call.w = ProgramWidth
    /\ call.h = ProgramHeight
    /\ call.x = 0
    /\ call.y = 0
    /\ 5 * ret.u = -2 * Scale
    /\ 2 * ret.v = Scale

====
